---- MODULE Spec2Model ----
(***************************************************************************)
(* LogoLookup: the brand matcher (find_best_match of check_logos.py and of *)
(* logo_lookup_multi.py), the batch download loops that call it, the brand *)
(* grouper (group_by_brand of logo_preview_editor.py) and the requests of  *)
(* logo_preview_editor.py over its directory tree.                         *)
(*                                                                         *)
(* A Python str is modelled as a sequence of one-character strings, so     *)
(* that strip, lower, substring search, split and rsplit are computed      *)
(* character by character as the interpreter computes them.                *)
(***************************************************************************)
EXTENDS Integers, Sequences, FiniteSets, TLC

VARIABLES pc, logo_df, search_name, match, scan, filenames, groups,
          batch_brands, logo_urls, run,
          ADMIN_TOKENS, issued, disk, marks, http, now

matcherVars == <<logo_df, search_name, match, scan>>

grouperVars == <<filenames, groups>>

batchVars == <<batch_brands, logo_urls, run>>

webVars == <<ADMIN_TOKENS, issued, disk, marks, http, now>>

vars == <<pc, matcherVars, grouperVars, batchVars, webVars>>

(***************************************************************************)
(* Bounds of the explored inputs.                                          *)
(***************************************************************************)
MaxLen == 3
MaxRows == 2
MaxWords == 3
MaxTok == 3
MaxFiles == 2
MaxBatchLen == 2
MaxBrands == 2

(***************************************************************************)
(* Python str primitives.                                                  *)
(***************************************************************************)
None == <<"None">>

SPACE == " "

\* str.lower() on the characters in use
LowerChar(c) ==
    CASE c = "A" -> "a"
      [] c = "B" -> "b"
      [] c = "C" -> "c"
      [] c = "L" -> "l"
      [] c = "O" -> "o"
      [] c = "G" -> "g"
      [] c = "N" -> "n"
      [] c = "P" -> "p"
      [] OTHER -> c

Lower(s) == [i \in 1..Len(s) |-> LowerChar(s[i])]

\* ord() of the characters in use
Ord(c) ==
    CASE c = " " -> 32
      [] c = "*" -> 42
      [] c = "." -> 46
      [] c = "/" -> 47
      [] c = "0" -> 48
      [] c = "1" -> 49
      [] c = "2" -> 50
      [] c = "3" -> 51
      [] c = "4" -> 52
      [] c = "5" -> 53
      [] c = "6" -> 54
      [] c = "7" -> 55
      [] c = "8" -> 56
      [] c = "9" -> 57
      [] c = ":" -> 58
      [] c = "A" -> 65
      [] c = "B" -> 66
      [] c = "C" -> 67
      [] c = "G" -> 71
      [] c = "L" -> 76
      [] c = "N" -> 78
      [] c = "O" -> 79
      [] c = "P" -> 80
      [] c = "_" -> 95
      [] c = "a" -> 97
      [] c = "b" -> 98
      [] c = "c" -> 99
      [] c = "d" -> 100
      [] c = "e" -> 101
      [] c = "f" -> 102
      [] c = "g" -> 103
      [] c = "i" -> 105
      [] c = "l" -> 108
      [] c = "n" -> 110
      [] c = "o" -> 111
      [] c = "p" -> 112
      [] c = "s" -> 115
      [] c = "t" -> 116
      [] c = "x" -> 120
      [] OTHER -> 0

RECURSIVE LStrip(_)
LStrip(s) == IF s # <<>> /\ Head(s) = SPACE THEN LStrip(Tail(s)) ELSE s

RECURSIVE RStrip(_)
RStrip(s) ==
    IF s # <<>> /\ s[Len(s)] = SPACE THEN RStrip(SubSeq(s, 1, Len(s) - 1)) ELSE s

\* str.strip()
Strip(s) == RStrip(LStrip(s))

\* sub in s
Contains(s, sub) ==
    \E i \in 0..(Len(s) - Len(sub)) : SubSeq(s, i + 1, i + Len(sub)) = sub

\* set(s.split()): the maximal runs of non-blank characters
Words(s) ==
    { SubSeq(s, i, j) : <<i, j>> \in
        { p \in (1..Len(s)) \X (1..Len(s)) :
            /\ p[1] <= p[2]
            /\ \A k \in p[1]..p[2] : s[k] # SPACE
            /\ (p[1] = 1 \/ s[p[1] - 1] = SPACE)
            /\ (p[2] = Len(s) \/ s[p[2] + 1] = SPACE) } }

\* s.rfind(sub) + 1: the 1-based start of the last occurrence, 0 when absent
RFind(s, sub) ==
    LET hits == { i \in 1..(Len(s) - Len(sub) + 1) :
                    SubSeq(s, i, i + Len(sub) - 1) = sub }
    IN IF hits = {} THEN 0 ELSE CHOOSE i \in hits : \A j \in hits : j <= i

\* s.rsplit(sep, 1)
RSplit1(s, sep) ==
    LET i == RFind(s, sep)
    IN IF i = 0 THEN <<s>>
       ELSE <<SubSeq(s, 1, i - 1), SubSeq(s, i + Len(sep), Len(s))>>

Digits == <<"0", "1", "2", "3", "4", "5", "6", "7", "8", "9">>

\* variant: the empty string passes (all() over no characters)
IsDigitOrEmpty(s) == \A i \in 1..Len(s) : \E d \in 1..10 : s[i] = Digits[d]

\* s.isdigit()
IsDigit(s) == s # <<>> /\ \A i \in 1..Len(s) : \E d \in 1..10 : s[i] = Digits[d]

\* s.replace("_", " ")
ReplaceUnderscore(s) == [i \in 1..Len(s) |-> IF s[i] = "_" THEN SPACE ELSE s[i]]

\* s < t on str: lexicographic by code point
RECURSIVE StrLess(_, _)
StrLess(s, t) ==
    IF t = <<>> THEN FALSE
    ELSE IF s = <<>> THEN TRUE
    ELSE IF Ord(Head(s)) # Ord(Head(t)) THEN Ord(Head(s)) < Ord(Head(t))
    ELSE StrLess(Tail(s), Tail(t))

RECURSIVE Flatten(_)
Flatten(ss) == IF ss = <<>> THEN <<>> ELSE Head(ss) \o Flatten(Tail(ss))

SeqsUpTo(S, n) == UNION { [1..k -> S] : k \in 0..n }

(***************************************************************************)
(* Brand matcher, check_logos.py                                           *)
(***************************************************************************)
\* main(): logo_df['Brand_Lower'] = logo_df['Brand'].str.strip().str.lower()
BrandLower(brand) == Lower(Strip(brand))

MakeRow(brand) == [Brand |-> brand, Brand_Lower |-> BrandLower(brand)]

Result(i, kind, score, name) == [row |-> i, kind |-> kind, score |-> score, name |-> name]

\* df[mask]: the positions of the rows selected by a boolean mask, in table order
RECURSIVE Filter(_, _)
Filter(df, mask) ==
    IF df = <<>> THEN <<>>
    ELSE LET n == Len(df)
             init == Filter(SubSeq(df, 1, n - 1), SubSeq(mask, 1, n - 1))
         IN IF mask[n] THEN Append(init, n) ELSE init

\* variant: compares the unnormalised Brand column
ExactRowsRaw(search_lower, df) ==
    Filter(df, [i \in 1..Len(df) |-> df[i].Brand = search_lower])

\* Strategy 1: logo_df[logo_df['Brand_Lower'] == search_lower]
ExactRows(search_lower, df) ==
    Filter(df, [i \in 1..Len(df) |-> df[i].Brand_Lower = search_lower])

\* variant: the substring test with its operands exchanged
ContainsRowsReversed(search_lower, df) ==
    Filter(df, [i \in 1..Len(df) |-> Contains(search_lower, df[i].Brand_Lower)])

\* Strategy 2: logo_df[logo_df['Brand_Lower'].str.contains(search_lower, regex=False)]
ContainsRows(search_lower, df) ==
    Filter(df, [i \in 1..Len(df) |-> Contains(df[i].Brand_Lower, search_lower)])

\* variant: the substring test with its operands exchanged
RECURSIVE PartialScanReversed(_, _, _)
PartialScanReversed(search_lower, df, i) ==
    IF i > Len(df) THEN 0
    ELSE IF Contains(df[i].Brand_Lower, search_lower) THEN i
    ELSE PartialScanReversed(search_lower, df, i + 1)

\* Strategy 3: the first row, in iterrows order, with brand_lower in search_lower
RECURSIVE PartialScan(_, _, _)
PartialScan(search_lower, df, i) ==
    IF i > Len(df) THEN 0
    ELSE IF Contains(search_lower, df[i].Brand_Lower) THEN i
    ELSE PartialScan(search_lower, df, i + 1)

\* len(search_words & brand_words)
Score(search_lower, brand_lower) ==
    Cardinality(Words(search_lower) \cap Words(brand_lower))

\* variant: an equal score replaces the standing best
BetterOrEqual(score, best_score) == score >= best_score /\ score >= 2

\* variant: one shared word is enough
BetterAtLeastOne(score, best_score) == score > best_score /\ score >= 1

\* the test that lets a row replace the standing best
Better(score, best_score) == score > best_score /\ score >= 2

\* Strategy 4: the loop over iterrows keeping best_match / best_score
RECURSIVE FuzzyScan(_, _, _, _, _)
FuzzyScan(search_lower, df, i, best_match, best_score) ==
    IF i > Len(df) THEN <<best_match, best_score>>
    ELSE LET score == Score(search_lower, df[i].Brand_Lower)
         IN IF Better(score, best_score)
            THEN FuzzyScan(search_lower, df, i + 1, i, score)
            ELSE FuzzyScan(search_lower, df, i + 1, best_match, best_score)

\* variant: strategy 3 is tried before strategy 2
find_best_match_swapped(name, df) ==
    LET search_lower == Lower(Strip(name))
        exact == ExactRows(search_lower, df)
        contains == ContainsRows(search_lower, df)
        partial == PartialScan(search_lower, df, 1)
        fuzzy == FuzzyScan(search_lower, df, 1, 0, 0)
    IN IF exact # <<>> THEN Result(exact[1], "EXACT", 0, df[exact[1]].Brand)
       ELSE IF partial # 0 THEN Result(partial, "PARTIAL", 0, df[partial].Brand)
       ELSE IF contains # <<>>
            THEN Result(contains[1], "CONTAINS", 0, df[contains[1]].Brand)
       ELSE IF fuzzy[1] # 0 THEN Result(fuzzy[1], "FUZZY", fuzzy[2], df[fuzzy[1]].Brand)
       ELSE Result(0, "NOT_FOUND", 0, None)

find_best_match(name, df) ==
    LET search_lower == Lower(Strip(name))
        exact == ExactRows(search_lower, df)
        contains == ContainsRows(search_lower, df)
        partial == PartialScan(search_lower, df, 1)
        fuzzy == FuzzyScan(search_lower, df, 1, 0, 0)
    IN IF exact # <<>> THEN Result(exact[1], "EXACT", 0, df[exact[1]].Brand)
       ELSE IF contains # <<>>
            THEN Result(contains[1], "CONTAINS", 0, df[contains[1]].Brand)
       ELSE IF partial # 0 THEN Result(partial, "PARTIAL", 0, df[partial].Brand)
       ELSE IF fuzzy[1] # 0 THEN Result(fuzzy[1], "FUZZY", fuzzy[2], df[fuzzy[1]].Brand)
       ELSE Result(0, "NOT_FOUND", 0, None)

\* one call of find_best_match, as made by the batch loop
FindBestMatch ==
    /\ pc = "match"
    /\ match' = find_best_match(search_name, logo_df)
    /\ pc' = "matched"
    /\ UNCHANGED <<logo_df, search_name, scan, grouperVars, batchVars, webVars>>

NoMatch == Result(0, "PENDING", 0, None)

\* the strategies in the order the function tries them
Strategies == <<"exact", "contains", "partial", "fuzzy">>

\* find_best_match not entered: no row visited, no best match
NoScan == [phase |-> "idle", i |-> 0, hits |-> <<>>, best_match |-> 0, best_score |-> 0,
           visits |-> [k \in 1..Len(Strategies) |-> <<>>]]

MatcherIdle == logo_df = <<>> /\ search_name = <<>> /\ match = NoMatch /\ scan = NoScan

GrouperIdle == filenames = <<>> /\ groups = <<>>

\* no batch run started
NoRun == [script |-> "none", i |-> 0, results |-> <<>>, stats |-> <<>>, downloads |-> <<>>]

BatchIdle == batch_brands = <<>> /\ logo_urls = <<>> /\ run = NoRun

\* no token, i.e. None or ''
NoToken == 0

\* a directory tree: the directories and the files with their content
NoDisk == [dirs |-> {}, files |-> <<>>]

\* no request handled yet
NoRequest ==
    [n |-> 0, endpoint |-> "none", token |-> NoToken, batch |-> <<>>, brand |-> <<>>,
     status |-> 0, filename |-> <<>>, touched |-> {}, served |-> <<>>]

\* the web application is not running
WebIdle ==
    /\ ADMIN_TOKENS = {} /\ issued = 0 /\ disk = NoDisk /\ marks = <<>>
    /\ http = NoRequest /\ now = 0

\* brand names and queries as arbitrary short strings
Alphabet == {"a", "B", SPACE}

Names == SeqsUpTo(Alphabet, MaxLen)

Tables(S) == { [i \in 1..Len(t) |-> MakeRow(t[i])] : t \in SeqsUpTo(S, MaxRows) }

InitMatch ==
    /\ pc = "match"
    /\ logo_df \in Tables(Names)
    /\ search_name \in Names
    /\ match = NoMatch
    /\ scan = NoScan
    /\ GrouperIdle
    /\ BatchIdle
    /\ WebIdle

NextMatch == FindBestMatch

SpecMatch == InitMatch /\ [][NextMatch]_vars

\* brand names and queries as blank-separated word lists
WordSet == {<<"a">>, <<"b">>, <<"c">>}

RECURSIVE JoinWords(_)
JoinWords(ws) ==
    IF ws = <<>> THEN <<>>
    ELSE IF Len(ws) = 1 THEN Head(ws)
    ELSE Head(ws) \o <<SPACE>> \o JoinWords(Tail(ws))

WordNames == { JoinWords(ws) : ws \in SeqsUpTo(WordSet, MaxWords) \ {<<>>} }

InitFuzzy ==
    /\ pc = "match"
    /\ logo_df \in Tables(WordNames)
    /\ search_name \in WordNames
    /\ match = NoMatch
    /\ scan = NoScan
    /\ GrouperIdle
    /\ BatchIdle
    /\ WebIdle

SpecFuzzy == InitFuzzy /\ [][NextMatch]_vars

(***************************************************************************)
(* find_best_match row by row: each strategy as a pass over the rows of    *)
(* the table (the two vectorised selections visit every row, the two       *)
(* iterrows loops visit the rows in order).                                *)
(***************************************************************************)
StartScan == [NoScan EXCEPT !.phase = "exact", !.i = 1]

\* record the visit of the current row by strategy k
Visit(sc, k) == [sc EXCEPT !.visits[k] = Append(@, sc.i)]

\* variant: the pass does not move on to the next row
AdvanceStuck(i) == i

\* the pass moves on to the next row
Advance(i) == i + 1

\* the function returns
Return(res) ==
    /\ match' = res
    /\ pc' = "matched"

\* Strategy 1, one row of the comparison Brand_Lower == search_lower
ExactVisit ==
    /\ pc = "scan" /\ scan.phase = "exact" /\ scan.i <= Len(logo_df)
    /\ scan' = [Visit(scan, 1) EXCEPT
                  !.hits = IF logo_df[scan.i].Brand_Lower = Lower(Strip(search_name))
                           THEN Append(@, scan.i) ELSE @,
                  !.i = Advance(@)]
    /\ UNCHANGED <<pc, logo_df, search_name, match, grouperVars, batchVars, webVars>>

\* if not exact.empty: return exact.iloc[0], 'EXACT', ...
ExactReturn ==
    /\ pc = "scan" /\ scan.phase = "exact" /\ scan.i > Len(logo_df)
    /\ IF scan.hits # <<>>
       THEN /\ Return(Result(scan.hits[1], "EXACT", 0, logo_df[scan.hits[1]].Brand))
            /\ scan' = [scan EXCEPT !.phase = "done"]
       ELSE /\ scan' = [scan EXCEPT !.phase = "contains", !.i = 1, !.hits = <<>>]
            /\ UNCHANGED <<pc, match>>
    /\ UNCHANGED <<logo_df, search_name, grouperVars, batchVars, webVars>>

\* Strategy 2, one row of Brand_Lower.str.contains(search_lower)
ContainsVisit ==
    /\ pc = "scan" /\ scan.phase = "contains" /\ scan.i <= Len(logo_df)
    /\ scan' = [Visit(scan, 2) EXCEPT
                  !.hits = IF Contains(logo_df[scan.i].Brand_Lower, Lower(Strip(search_name)))
                           THEN Append(@, scan.i) ELSE @,
                  !.i = Advance(@)]
    /\ UNCHANGED <<pc, logo_df, search_name, match, grouperVars, batchVars, webVars>>

\* if not contains.empty: return contains.iloc[0], 'CONTAINS', ...
ContainsReturn ==
    /\ pc = "scan" /\ scan.phase = "contains" /\ scan.i > Len(logo_df)
    /\ IF scan.hits # <<>>
       THEN /\ Return(Result(scan.hits[1], "CONTAINS", 0, logo_df[scan.hits[1]].Brand))
            /\ scan' = [scan EXCEPT !.phase = "done"]
       ELSE /\ scan' = [scan EXCEPT !.phase = "partial", !.i = 1, !.hits = <<>>]
            /\ UNCHANGED <<pc, match>>
    /\ UNCHANGED <<logo_df, search_name, grouperVars, batchVars, webVars>>

\* Strategy 3, one iteration of the iterrows loop
PartialVisit ==
    /\ pc = "scan" /\ scan.phase = "partial" /\ scan.i <= Len(logo_df)
    /\ IF Contains(Lower(Strip(search_name)), logo_df[scan.i].Brand_Lower)
       THEN /\ Return(Result(scan.i, "PARTIAL", 0, logo_df[scan.i].Brand))
            /\ scan' = [Visit(scan, 3) EXCEPT !.phase = "done"]
       ELSE /\ scan' = [Visit(scan, 3) EXCEPT !.i = Advance(@)]
            /\ UNCHANGED <<pc, match>>
    /\ UNCHANGED <<logo_df, search_name, grouperVars, batchVars, webVars>>

\* the iterrows loop of strategy 3 is exhausted
PartialEnd ==
    /\ pc = "scan" /\ scan.phase = "partial" /\ scan.i > Len(logo_df)
    /\ scan' = [scan EXCEPT !.phase = "fuzzy", !.i = 1]
    /\ UNCHANGED <<pc, logo_df, search_name, match, grouperVars, batchVars, webVars>>

\* Strategy 4, one iteration of the iterrows loop
FuzzyVisit ==
    /\ pc = "scan" /\ scan.phase = "fuzzy" /\ scan.i <= Len(logo_df)
    /\ LET score == Score(Lower(Strip(search_name)), logo_df[scan.i].Brand_Lower)
       IN scan' = IF Better(score, scan.best_score)
                  THEN [Visit(scan, 4) EXCEPT !.best_match = scan.i, !.best_score = score,
                                              !.i = Advance(@)]
                  ELSE [Visit(scan, 4) EXCEPT !.i = Advance(@)]
    /\ UNCHANGED <<pc, logo_df, search_name, match, grouperVars, batchVars, webVars>>

\* if best_match is not None: return ... FUZZY; return None, 'NOT_FOUND', None
FuzzyReturn ==
    /\ pc = "scan" /\ scan.phase = "fuzzy" /\ scan.i > Len(logo_df)
    /\ IF scan.best_match # 0
       THEN Return(Result(scan.best_match, "FUZZY", scan.best_score,
                          logo_df[scan.best_match].Brand))
       ELSE Return(Result(0, "NOT_FOUND", 0, None))
    /\ scan' = [scan EXCEPT !.phase = "done"]
    /\ UNCHANGED <<logo_df, search_name, grouperVars, batchVars, webVars>>

InitScan ==
    /\ pc = "scan"
    /\ logo_df \in Tables(Names)
    /\ search_name \in Names
    /\ match = NoMatch
    /\ scan = StartScan
    /\ GrouperIdle
    /\ BatchIdle
    /\ WebIdle

NextScan ==
    \/ ExactVisit \/ ExactReturn
    \/ ContainsVisit \/ ContainsReturn
    \/ PartialVisit \/ PartialEnd
    \/ FuzzyVisit \/ FuzzyReturn

SpecScan == InitScan /\ [][NextScan]_vars

(***************************************************************************)
(* Brand grouper, logo_preview_editor.py                                   *)
(***************************************************************************)
\* Path(fn).stem: the name without its last suffix; a leading or a trailing
\* dot starts no suffix
Stem(fn) ==
    LET i == RFind(fn, <<".">>)
    IN IF 1 < i /\ i < Len(fn) THEN SubSeq(fn, 1, i - 1) ELSE fn

MARKER == <<"_", "l", "o", "g", "o">>

\* the brand key of one filename (the body of the loop before the grouping)
BrandKey(fn) ==
    LET stem == Stem(fn)
        low == Lower(stem)
        parts == RSplit1(stem, <<"_">>)
    IN IF Contains(low, MARKER) THEN RSplit1(stem, MARKER)[1]
       ELSE IF Len(parts) = 2 /\ IsDigit(parts[2]) THEN parts[1]
       ELSE stem

BrandDisplay(brand_key) == ReplaceUnderscore(brand_key)

\* variant: a known brand's file list is replaced instead of extended
AddFileOverwrite(dict, fn) ==
    LET brand_key == BrandKey(fn)
        hit == { i \in 1..Len(dict) : dict[i].key = brand_key }
    IN IF hit = {}
       THEN Append(dict, [key |-> brand_key, brand |-> BrandDisplay(brand_key),
                          files |-> <<fn>>])
       ELSE LET i == CHOOSE i \in hit : TRUE
            IN [dict EXCEPT ![i].files = <<fn>>]

\* groups.setdefault(brand_key, {...}); groups[brand_key]["files"].append(fn)
\* the dict is a sequence of entries in insertion order
AddFile(dict, fn) ==
    LET brand_key == BrandKey(fn)
        hit == { i \in 1..Len(dict) : dict[i].key = brand_key }
    IN IF hit = {}
       THEN Append(dict, [key |-> brand_key, brand |-> BrandDisplay(brand_key),
                          files |-> <<fn>>])
       ELSE LET i == CHOOSE i \in hit : TRUE
            IN [dict EXCEPT ![i].files = Append(@, fn)]

RECURSIVE BuildGroups(_, _)
BuildGroups(fns, dict) ==
    IF fns = <<>> THEN dict ELSE BuildGroups(Tail(fns), AddFile(dict, Head(fns)))

\* variant: the display name is compared as written
SortKeyRaw(entry) == entry.brand

\* the sort key: groups[x]["brand"].lower()
SortKey(entry) == Lower(entry.brand)

\* variant: an entry is placed before the entries with an equal key
RECURSIVE InsertSortedUnstable(_, _)
InsertSortedUnstable(sorted, entry) ==
    IF sorted = <<>> THEN <<entry>>
    ELSE IF ~StrLess(Lower(sorted[Len(sorted)].brand), Lower(entry.brand))
         THEN Append(InsertSortedUnstable(SubSeq(sorted, 1, Len(sorted) - 1), entry),
                     sorted[Len(sorted)])
         ELSE Append(sorted, entry)

\* sorted(..., key=...): stable, ascending
RECURSIVE InsertSorted(_, _)
InsertSorted(sorted, entry) ==
    IF sorted = <<>> THEN <<entry>>
    ELSE IF StrLess(SortKey(entry), SortKey(sorted[Len(sorted)]))
         THEN Append(InsertSorted(SubSeq(sorted, 1, Len(sorted) - 1), entry),
                     sorted[Len(sorted)])
         ELSE Append(sorted, entry)

RECURSIVE SortedGroups(_)
SortedGroups(dict) ==
    IF dict = <<>> THEN <<>>
    ELSE InsertSorted(SortedGroups(SubSeq(dict, 1, Len(dict) - 1)), dict[Len(dict)])

group_by_brand(fns) ==
    LET sorted == SortedGroups(BuildGroups(fns, <<>>))
    IN [i \in 1..Len(sorted) |-> [brand |-> sorted[i].brand, files |-> sorted[i].files]]

\* one call of group_by_brand, as made by api_logos
GroupByBrand ==
    /\ pc = "group"
    /\ groups' = group_by_brand(filenames)
    /\ pc' = "grouped"
    /\ UNCHANGED <<matcherVars, filenames, batchVars, webVars>>

\* filenames: a stem made of these pieces, with an allowed extension
StemTokens == {<<"A">>, <<"a">>, <<"_">>, <<"1">>, MARKER, <<"_", "L", "O", "G", "O">>}

EXT == <<".", "p", "n", "g">>

FileNames == { Flatten(ts) \o EXT : ts \in SeqsUpTo(StemTokens, MaxTok) \ {<<>>} }

InitGroup ==
    /\ pc = "group"
    /\ filenames \in SeqsUpTo(FileNames, MaxFiles)
    /\ groups = <<>>
    /\ MatcherIdle
    /\ BatchIdle
    /\ WebIdle

NextGroup == GroupByBrand

SpecGroup == InitGroup /\ [][NextGroup]_vars

(***************************************************************************)
(* Brand matcher of logo_lookup_multi.py                                   *)
(***************************************************************************)
\* re.compile(pat) for patterns of literal characters and the repeat operator *:
\* a * with nothing to repeat, or a repeat of a repeat, raises re.error
RegexValid(pat) ==
    \A k \in 1..Len(pat) : pat[k] = "*" => (k > 1 /\ pat[k - 1] # "*")

\* the compiled pattern: each literal with whether it is starred
RegexItems(pat) ==
    LET lit == { k \in 1..Len(pat) : pat[k] # "*" }
        RECURSIVE Build(_)
        Build(k) ==
            IF k > Len(pat) THEN <<>>
            ELSE IF k \in lit
                 THEN <<[ch |-> pat[k], star |-> (k < Len(pat) /\ pat[k + 1] = "*")]>>
                      \o Build(k + 1)
                 ELSE Build(k + 1)
    IN Build(1)

\* the items match a prefix of s
RECURSIVE RegexMatch(_, _)
RegexMatch(items, s) ==
    IF items = <<>> THEN TRUE
    ELSE LET it == Head(items)
         IN IF it.star
            THEN \/ RegexMatch(Tail(items), s)
                 \/ (s # <<>> /\ Head(s) = it.ch /\ RegexMatch(items, Tail(s)))
            ELSE s # <<>> /\ Head(s) = it.ch /\ RegexMatch(Tail(items), Tail(s))

\* re.search(pat, s) is not None
RegexSearch(pat, s) ==
    \E k \in 0..Len(s) : RegexMatch(RegexItems(pat), SubSeq(s, k + 1, Len(s)))

\* df[df['Brand_Lower'].str.contains(search_lower, na=False)]: a regex search
ContainsRowsRegex(search_lower, df) ==
    Filter(df, [i \in 1..Len(df) |-> RegexSearch(search_lower, df[i].Brand_Lower)])

\* the first row with brand_lower in search_lower or search_lower in brand_lower
RECURSIVE PartialScanEither(_, _, _)
PartialScanEither(search_lower, df, i) ==
    IF i > Len(df) THEN 0
    ELSE IF \/ Contains(search_lower, df[i].Brand_Lower)
            \/ Contains(df[i].Brand_Lower, search_lower)
         THEN i
    ELSE PartialScanEither(search_lower, df, i + 1)

\* the exception raised out of find_best_match
Raised == Result(0, "RAISED", 0, None)

find_best_match_multi(name, df) ==
    LET search_lower == Lower(Strip(name))
        exact == ExactRows(search_lower, df)
        contains == ContainsRowsRegex(search_lower, df)
        partial == PartialScanEither(search_lower, df, 1)
    IN IF exact # <<>> THEN Result(exact[1], "EXACT", 0, df[exact[1]].Brand)
       ELSE IF ~RegexValid(search_lower) THEN Raised
       ELSE IF contains # <<>>
            THEN Result(contains[1], "CONTAINS", 0, df[contains[1]].Brand)
       ELSE IF partial # 0 THEN Result(partial, "PARTIAL", 0, df[partial].Brand)
       ELSE Result(0, "NOT_FOUND", 0, None)

\* one call of find_best_match of logo_lookup_multi.py
FindBestMatchMulti ==
    /\ pc = "match"
    /\ match' = find_best_match_multi(search_name, logo_df)
    /\ pc' = "matched_multi"
    /\ UNCHANGED <<logo_df, search_name, scan, grouperVars, batchVars, webVars>>

\* brand names and queries for both matchers: plain text, and text with *
BothNames == Names \cup SeqsUpTo({"a", SPACE, "*"}, MaxBatchLen)

InitBoth ==
    /\ pc = "match"
    /\ logo_df \in Tables(BothNames)
    /\ search_name \in BothNames
    /\ match = NoMatch
    /\ scan = NoScan
    /\ GrouperIdle
    /\ BatchIdle
    /\ WebIdle

\* the same query and table go to one matcher or to the other
NextBoth == FindBestMatch \/ FindBestMatchMulti

SpecBoth == InitBoth /\ [][NextBoth]_vars

(***************************************************************************)
(* The batch runs: download_batch_logos of check_logos.py and              *)
(* download_batch of logo_lookup_multi.py.                                 *)
(***************************************************************************)
NOT_FOUND_MARK == <<"NOT FOUND">>

\* a logo cell: empty, a URL whose download succeeds, a URL whose download fails
Urls == {"", "good", "bad"}

\* download_image(url, path)
download_image(url) == url = "good"

\* the logo columns tried, in order: range(1, 4) without the empty cells
Tried(urls) == SelectSeq(<<1, 2, 3>>, LAMBDA n : urls[n] # "")

Succeeded(urls) == SelectSeq(Tried(urls), LAMBDA n : download_image(urls[n]))

Failed(urls) == SelectSeq(Tried(urls), LAMBDA n : ~download_image(urls[n]))

\* batch_brands = [b.strip() for b in BATCH_LIST.split('\n') if b.strip()]
ParseBatchList(lines) ==
    LET kept == SelectSeq(lines, LAMBDA b : Strip(b) # <<>>)
    IN [k \in 1..Len(kept) |-> Strip(kept[k])]

\* download_stats / stats before the loop
StartStats(script) ==
    IF script = "check_logos"
    THEN [found |-> 0, not_found |-> 0, logo_downloaded |-> <<0, 0, 0>>, failed |-> 0]
    ELSE [found |-> 0, not_found |-> 0, failed |-> 0, images |-> 0]

StartRun(script) ==
    [script |-> script, i |-> 1, results |-> <<>>, stats |-> StartStats(script),
     downloads |-> <<>>]

\* results.append({... 'Matched_As': 'NOT FOUND' ...})
NotFoundRow(results, row) == Append(results, row)

\* one iteration of the loop of download_batch_logos
DownloadBatchLogosStep ==
    /\ pc = "batch" /\ run.script = "check_logos" /\ run.i <= Len(batch_brands)
    /\ LET brand_clean == Strip(batch_brands[run.i])
           m == find_best_match(brand_clean, logo_df)
       IN IF m.row = 0
          THEN run' = [run EXCEPT
                  !.results = NotFoundRow(@, [Brand |-> brand_clean,
                                              Matched_As |-> NOT_FOUND_MARK,
                                              Logo_Paths |-> <<"NOT FOUND", "", "">>]),
                  !.stats.not_found = @ + 1,
                  !.i = @ + 1]
          ELSE LET urls == logo_urls[m.row]
               IN run' = [run EXCEPT
                  !.stats.found = @ + 1,
                  !.stats.logo_downloaded =
                      [n \in 1..3 |-> IF urls[n] # "" /\ download_image(urls[n])
                                      THEN @[n] + 1 ELSE @[n]],
                  !.stats.failed = @ + Len(Failed(urls)),
                  !.downloads = @ \o [k \in 1..Len(Tried(urls)) |-> <<run.i, Tried(urls)[k]>>],
                  !.results = Append(@, [Brand |-> brand_clean,
                                         Matched_As |-> IF m.kind # "EXACT" THEN m.name
                                                        ELSE brand_clean,
                                         Logo_Paths |-> [n \in 1..3 |->
                                             IF urls[n] = "" THEN ""
                                             ELSE IF download_image(urls[n]) THEN "saved"
                                             ELSE "FAILED"]]),
                  !.i = @ + 1]
    /\ UNCHANGED <<pc, matcherVars, grouperVars, batch_brands, logo_urls, webVars>>

\* one iteration of the loop of download_batch; an exception raised by
\* find_best_match leaves the function
DownloadBatchStep ==
    /\ pc = "batch" /\ run.script = "logo_lookup_multi" /\ run.i <= Len(batch_brands)
    /\ LET brand == batch_brands[run.i]
           m == find_best_match_multi(brand, logo_df)
       IN IF m = Raised
          THEN pc' = "raised" /\ UNCHANGED run
          ELSE /\ UNCHANGED pc
               /\ IF m.row = 0
                  THEN run' = [run EXCEPT
                          !.results = NotFoundRow(@, [Brand |-> brand,
                                                      Matched_As |-> NOT_FOUND_MARK]),
                          !.stats.not_found = @ + 1,
                          !.i = @ + 1]
                  ELSE LET urls == logo_urls[m.row]
                       IN run' = [run EXCEPT
                          !.stats.found = @ + 1,
                          !.stats.images = @ + Len(Succeeded(urls)),
                          !.stats.failed = @ + Len(Failed(urls)),
                          !.downloads = @ \o [k \in 1..Len(Tried(urls)) |->
                                                 <<run.i, Tried(urls)[k]>>],
                          !.results = Append(@, [Brand |-> brand,
                                                 Matched_As |-> m.name,
                                                 Match_Type |-> m.kind,
                                                 Downloaded |-> Succeeded(urls)]),
                          !.i = @ + 1]
    /\ UNCHANGED <<matcherVars, grouperVars, batch_brands, logo_urls, webVars>>

\* the loop is over: the report is written from results
WriteReport ==
    /\ pc = "batch" /\ run.i > Len(batch_brands)
    /\ pc' = "reported"
    /\ UNCHANGED <<matcherVars, grouperVars, batchVars, webVars>>

\* brand names of the batch lists and of the sheet; * is a regex operator
BatchAlphabet == {"a", SPACE, "*"}

BatchNames == SeqsUpTo(BatchAlphabet, MaxBatchLen)

\* the Logo1..Logo3 cells of a row
UrlRows == {<<"", "", "">>, <<"good", "bad", "">>}

InitBatch ==
    /\ pc = "batch"
    /\ logo_df \in Tables(BatchNames)
    /\ logo_urls \in [1..Len(logo_df) -> UrlRows]
    /\ \E script \in {"check_logos", "logo_lookup_multi"} :
         \E lines \in SeqsUpTo(BatchNames, MaxBrands) :
            /\ batch_brands = IF script = "check_logos" THEN ParseBatchList(lines) ELSE lines
            /\ run = StartRun(script)
    /\ search_name = <<>>
    /\ match = NoMatch
    /\ scan = NoScan
    /\ GrouperIdle
    /\ WebIdle

NextBatch == DownloadBatchLogosStep \/ DownloadBatchStep \/ WriteReport

SpecBatch == InitBatch /\ [][NextBatch]_vars

(***************************************************************************)
(* logo_preview_editor.py: paths and the directory tree.  A path is the    *)
(* sequence of its components below the filesystem root.                   *)
(***************************************************************************)
SEP == "/"

DOTDOT == <<".", ".">>

\* s.find(c) + 1: the 1-based position of the first c, 0 when absent
FindChar(s, c) ==
    LET hits == { i \in 1..Len(s) : s[i] = c }
    IN IF hits = {} THEN 0 ELSE CHOOSE i \in hits : \A j \in hits : i <= j

\* s.split(c)
RECURSIVE Split(_, _)
Split(s, c) ==
    LET i == FindChar(s, c)
    IN IF i = 0 THEN <<s>>
       ELSE <<SubSeq(s, 1, i - 1)>> \o Split(SubSeq(s, i + 1, Len(s)), c)

StartsWith(s, prefix) ==
    Len(prefix) <= Len(s) /\ SubSeq(s, 1, Len(prefix)) = prefix

\* PurePath(s).parts without the anchor: empty and "." components are dropped
PathParts(s) == SelectSeq(Split(s, SEP), LAMBDA part : part # <<>> /\ part # <<".">>)

IsAbsolute(s) == s # <<>> /\ Head(s) = SEP

\* base / s: an absolute s replaces base
JoinPath(base, s) == IF IsAbsolute(s) THEN PathParts(s) ELSE base \o PathParts(s)

\* the directory a path names once every ".." has been followed (no symlinks;
\* the parent of the filesystem root is the root)
RECURSIVE Resolve(_)
Resolve(p) ==
    IF p = <<>> THEN <<>>
    ELSE LET q == Resolve(SubSeq(p, 1, Len(p) - 1))
             last == p[Len(p)]
         IN IF last = DOTDOT
            THEN IF q = <<>> THEN <<>> ELSE SubSeq(q, 1, Len(q) - 1)
            ELSE Append(q, last)

\* str(path)
RECURSIVE PathStr(_)
PathStr(p) ==
    IF p = <<>> THEN <<SEP>>
    ELSE IF Len(p) = 1 THEN <<SEP>> \o p[1]
    ELSE PathStr(SubSeq(p, 1, Len(p) - 1)) \o <<SEP>> \o p[Len(p)]

BASE_DIR == << <<"a", "p", "p">> >>

STATIC_LOGOS_ROOT == BASE_DIR \o << <<"s", "t", "a", "t", "i", "c">>, <<"l", "o", "g", "o", "s">> >>

ALLOWED_EXT ==
    { <<".", "p", "n", "g">>, <<".", "j", "p", "g">>, <<".", "j", "p", "e", "g">>,
      <<".", "s", "v", "g">>, <<".", "w", "e", "b", "p">>, <<".", "g", "i", "f">> }

\* Path(fn).suffix
Suffix(fn) ==
    LET i == RFind(fn, <<".">>)
    IN IF 1 < i /\ i < Len(fn) THEN SubSeq(fn, i, Len(fn)) ELSE <<>>

allowed_ext(filename) == Lower(Suffix(filename)) \in ALLOWED_EXT

Name(p) == p[Len(p)]

Parent(p) == SubSeq(p, 1, Len(p) - 1)

IsDir(d, p) == Resolve(p) \in d.dirs

IsFile(d, p) == Resolve(p) \in DOMAIN d.files

Exists(d, p) == IsDir(d, p) \/ IsFile(d, p)

\* the directories p.mkdir(parents=True, exist_ok=True) has to make
MissingDirs(d, p) ==
    { SubSeq(Resolve(p), 1, k) : k \in 1..Len(Resolve(p)) } \ d.dirs

\* mkdir meets a file where a directory is needed
MkdirFails(d, p) == MissingDirs(d, p) \cap DOMAIN d.files # {}

Mkdir(d, p) == [d EXCEPT !.dirs = @ \cup MissingDirs(d, p)]

\* file.save(target): the file is created or overwritten
Save(d, target, content) ==
    [d EXCEPT !.files = [q \in DOMAIN d.files \cup {Resolve(target)} |->
                            IF q = Resolve(target) THEN content ELSE d.files[q]]]

\* p.unlink() of the files in ps
Unlink(d, ps) ==
    [d EXCEPT !.files = [q \in DOMAIN d.files \ { Resolve(p) : p \in ps } |-> d.files[q]]]

\* p.rename(target): target is replaced when it is a file
Rename(d, p, target) ==
    [d EXCEPT !.files = [q \in (DOMAIN d.files \ {Resolve(p)}) \cup {Resolve(target)} |->
                            IF q = Resolve(target) THEN d.files[Resolve(p)]
                            ELSE d.files[q]]]

\* the entries of dir.iterdir()
IterDir(d, dir) ==
    { p \in d.dirs \cup DOMAIN d.files : Len(p) > 0 /\ Parent(p) = Resolve(dir) }

\* variant: descending order
RECURSIVE SortNamesDescending(_)
SortNamesDescending(names) ==
    IF names = {} THEN <<>>
    ELSE LET greatest == CHOOSE x \in names : \A y \in names \ {x} : StrLess(y, x)
         IN <<greatest>> \o SortNamesDescending(names \ {greatest})

\* sorted(...) of entries of one directory: by name, code point order
RECURSIVE SortNames(_)
SortNames(names) ==
    IF names = {} THEN <<>>
    ELSE LET least == CHOOSE x \in names : \A y \in names \ {x} : StrLess(x, y)
         IN <<least>> \o SortNames(names \ {least})

\* safe_join(base, s) returns its path (it aborts with 403 otherwise): a prefix
\* test on the two path strings
SafeJoinReturns(base, s) ==
    StartsWith(PathStr(Resolve(JoinPath(base, s))), PathStr(Resolve(base)))

safe_join(base, s) == Resolve(JoinPath(base, s))

KEY_MAX == 120

\* the characters removed by re.sub(r'[<>:"/\\|?*]', '', text)
ForbiddenChars == {"<", ">", ":", "\"", "/", "\\", "|", "?", "*"}

\* re.sub(r'__+', "_", s)
RECURSIVE CollapseUnderscores(_)
CollapseUnderscores(s) ==
    IF Len(s) < 2 THEN s
    ELSE IF s[1] = "_" /\ s[2] = "_" THEN CollapseUnderscores(Tail(s))
    ELSE <<s[1]>> \o CollapseUnderscores(Tail(s))

clean_brand_key(text) ==
    LET kept == SelectSeq(text, LAMBDA c : c \notin ForbiddenChars)
        stripped == Strip(kept)
        joined == [i \in 1..Len(stripped) |-> IF stripped[i] = SPACE THEN "_" ELSE stripped[i]]
        collapsed == CollapseUnderscores(joined)
    IN SubSeq(collapsed, 1, IF Len(collapsed) < KEY_MAX THEN Len(collapsed) ELSE KEY_MAX)

\* str(n) of a natural number
RECURSIVE Str(_)
Str(n) == IF n < 10 THEN <<Digits[n + 1]>> ELSE Str(n \div 10) \o <<Digits[(n % 10) + 1]>>

\* the listing of api_logos: the allowed files of the batch directory, sorted
Listing(d, batch) ==
    LET batch_dir == JoinPath(STATIC_LOGOS_ROOT, batch)
    IN SelectSeq(SortNames({ Name(p) : p \in IterDir(d, batch_dir) }),
                 LAMBDA fn : IsFile(d, Append(Resolve(batch_dir), fn)) /\ allowed_ext(fn))

\* the response of /api/logos/<batch>
api_logos(d, batch) ==
    IF ~IsDir(d, JoinPath(STATIC_LOGOS_ROOT, batch)) THEN <<>>
    ELSE group_by_brand(Listing(d, batch))

(***************************************************************************)
(* logo_preview_editor.py: the requests.  Every action handles one request *)
(* from its arguments to its response.                                     *)
(***************************************************************************)
MaxTokens == 2
MaxRequests == 3
MaxNow == 2

ADMIN_PASSWORD == <<"a", "y", "a", "9", "0", "0">>

\* the token a request carries: none, or a uuid (issued or not)
Tokens == 0..MaxTokens

\* the batch a request names: '', 'b', '../x'
BatchArgs == { <<>>, <<"b">>, <<".", ".", SEP, "x">> }

\* the brand a request names: '', 'A', 'A * B'
BrandArgs == { <<>>, <<"A">>, <<"A", SPACE, "*", SPACE, "B">> }

\* file.filename of an upload: no file, 'f.png', 'f.exe'
UploadArgs == { <<>>, <<"f", ".", "p", "n", "g">>, <<"f", ".", "e", "x", "e">> }

\* the old_key of a rename request: '', 'A', 'A_B'
OldKeyArgs == { <<>>, <<"A">>, <<"A", "_", "B">> }

\* the filename of a request: '', '..', a stored name, and a stored file
\* addressed through the parent directory: '../<directory>/<name>'
DeleteArgs(d) ==
    { <<>>, DOTDOT }
       \cup { Name(p) : p \in DOMAIN d.files }
       \cup { DOTDOT \o <<SEP>> \o Name(Parent(p)) \o <<SEP>> \o Name(p) : p \in DOMAIN d.files }

\* uuid.uuid4().hex[:6], one character standing for the six: digits only, or not
HexDraws == { <<"1">>, <<"a">> }

\* variant: any token that is present passes
require_admin_token_present(token) == token # NoToken

\* require_admin_token() returns (it aborts with 401 otherwise)
require_admin_token(token) == token # NoToken /\ token \in ADMIN_TOKENS

Respond(endpoint, token, batch, brand, status, filename, touched) ==
    http' = [n |-> http.n + 1, endpoint |-> endpoint, token |-> token, batch |-> batch,
             brand |-> brand, status |-> status, filename |-> filename,
             touched |-> touched, served |-> <<>>]

Serving == pc = "web" /\ http.n < MaxRequests

AdminCreateBatch ==
    /\ Serving
    /\ \E token \in Tokens, batch \in BatchArgs :
         LET folder == JoinPath(STATIC_LOGOS_ROOT, batch)
             Reply(status) ==
                 /\ Respond("admin_create_batch", token, batch, <<>>, status, <<>>, {})
                 /\ UNCHANGED disk
         IN IF ~require_admin_token(token) THEN Reply(401)
            ELSE IF batch = <<>> THEN Reply(400)
            ELSE IF MkdirFails(disk, folder) THEN Reply(500)
            ELSE /\ disk' = Mkdir(disk, folder)
                 /\ Respond("admin_create_batch", token, batch, <<>>, 200, <<>>,
                            MissingDirs(disk, folder))
    /\ UNCHANGED <<pc, matcherVars, grouperVars, batchVars, ADMIN_TOKENS, issued, marks, now>>

AdminAddBrand ==
    /\ Serving
    /\ \E token \in Tokens, batch \in BatchArgs, brand \in BrandArgs, file \in UploadArgs :
         LET brand_key == clean_brand_key(brand)
             batch_dir == JoinPath(STATIC_LOGOS_ROOT, batch)
             made == Mkdir(disk, batch_dir)
             filename == brand_key \o MARKER \o <<"_">> \o Str(now) \o Suffix(file)
             target == Append(batch_dir, filename)
             Reply(status) ==
                 /\ Respond("admin_add_brand", token, batch, brand, status, <<>>, {})
                 /\ UNCHANGED disk
         IN IF ~require_admin_token(token) THEN Reply(401)
            ELSE IF batch = <<>> \/ brand = <<>> \/ file = <<>> THEN Reply(400)
            ELSE IF ~allowed_ext(file) THEN Reply(400)
            ELSE IF MkdirFails(disk, batch_dir) THEN Reply(500)
            ELSE IF IsDir(made, target)
                 THEN /\ disk' = made
                      /\ Respond("admin_add_brand", token, batch, brand, 500, <<>>,
                                 MissingDirs(disk, batch_dir))
            ELSE /\ disk' = Save(made, target, http.n + 1)
                 /\ Respond("admin_add_brand", token, batch, brand, 200, filename,
                            MissingDirs(disk, batch_dir) \cup {Resolve(target)})
    /\ UNCHANGED <<pc, matcherVars, grouperVars, batchVars, ADMIN_TOKENS, issued, marks, now>>

AdminUploadLogo ==
    /\ Serving
    /\ \E token \in Tokens, batch \in BatchArgs, brand \in BrandArgs, file \in UploadArgs :
         LET brand_key == clean_brand_key(brand)
             batch_dir == JoinPath(STATIC_LOGOS_ROOT, batch)
             made == Mkdir(disk, batch_dir)
             filename == brand_key \o MARKER \o <<"_">> \o Str(now) \o Suffix(file)
             target == Append(batch_dir, filename)
             Reply(status) ==
                 /\ Respond("admin_upload_logo", token, batch, brand, status, <<>>, {})
                 /\ UNCHANGED disk
         IN IF ~require_admin_token(token) THEN Reply(401)
            ELSE IF batch = <<>> \/ brand = <<>> \/ file = <<>> THEN Reply(400)
            ELSE IF ~allowed_ext(file) THEN Reply(400)
            ELSE IF MkdirFails(disk, batch_dir) THEN Reply(500)
            ELSE IF IsDir(made, target)
                 THEN /\ disk' = made
                      /\ Respond("admin_upload_logo", token, batch, brand, 500, <<>>,
                                 MissingDirs(disk, batch_dir))
            ELSE /\ disk' = Save(made, target, http.n + 1)
                 /\ Respond("admin_upload_logo", token, batch, brand, 200, filename,
                            MissingDirs(disk, batch_dir) \cup {Resolve(target)})
    /\ UNCHANGED <<pc, matcherVars, grouperVars, batchVars, ADMIN_TOKENS, issued, marks, now>>

UploadOrReplaceLogo ==
    /\ Serving
    /\ \E token \in Tokens, batch \in BatchArgs, brand \in BrandArgs, file \in UploadArgs :
         LET brand_key == clean_brand_key(brand)
             batch_dir == JoinPath(STATIC_LOGOS_ROOT, batch)
             made == Mkdir(disk, batch_dir)
             existing == { p \in IterDir(made, batch_dir) :
                             /\ IsFile(made, p)
                             /\ StartsWith(Name(p), brand_key \o MARKER) }
             cleared == Unlink(made, existing)
             filename == brand_key \o MARKER \o Suffix(file)
             target == Append(batch_dir, filename)
             Reply(status) ==
                 /\ Respond("upload_or_replace_logo", token, batch, brand, status, <<>>, {})
                 /\ UNCHANGED disk
         IN IF ~require_admin_token(token) THEN Reply(401)
            ELSE IF file = <<>> \/ brand = <<>> \/ batch = <<>> THEN Reply(400)
            ELSE IF ~allowed_ext(file) THEN Reply(400)
            ELSE IF MkdirFails(disk, batch_dir) THEN Reply(500)
            ELSE IF IsDir(cleared, target)
                 THEN /\ disk' = cleared
                      /\ Respond("upload_or_replace_logo", token, batch, brand, 500, <<>>,
                                 MissingDirs(disk, batch_dir) \cup existing)
            ELSE /\ disk' = Save(cleared, target, http.n + 1)
                 /\ Respond("upload_or_replace_logo", token, batch, brand, 200, filename,
                            MissingDirs(disk, batch_dir) \cup existing \cup {Resolve(target)})
    /\ UNCHANGED <<pc, matcherVars, grouperVars, batchVars, ADMIN_TOKENS, issued, marks, now>>

AdminDeleteLogo ==
    /\ Serving
    /\ \E token \in Tokens, batch \in BatchArgs, filename \in DeleteArgs(disk) :
         LET batch_dir == JoinPath(STATIC_LOGOS_ROOT, batch)
             target == safe_join(batch_dir, filename)
             Reply(status) ==
                 /\ Respond("admin_delete_logo", token, batch, <<>>, status, filename, {})
                 /\ UNCHANGED disk
         IN IF ~require_admin_token(token) THEN Reply(401)
            ELSE IF batch = <<>> \/ filename = <<>> THEN Reply(400)
            ELSE IF ~Exists(disk, batch_dir) THEN Reply(404)
            ELSE IF ~SafeJoinReturns(batch_dir, filename) THEN Reply(403)
            ELSE IF ~Exists(disk, target) THEN Reply(404)
            ELSE IF IsDir(disk, target) THEN Reply(500)
            ELSE /\ disk' = Unlink(disk, {target})
                 /\ Respond("admin_delete_logo", token, batch, <<>>, 200, filename, {target})
    /\ UNCHANGED <<pc, matcherVars, grouperVars, batchVars, ADMIN_TOKENS, issued, marks, now>>

\* the loop of admin_rename_brand over the sorted listing taken at its start;
\* the result is the set of trees the uuid draws can lead to
RECURSIVE RenameAll(_, _, _, _, _)
RenameAll(d, batch_dir, names, old_key, new_key) ==
    IF names = <<>> THEN {d}
    ELSE LET name == Head(names)
             p == Append(batch_dir, name)
             suffix == SubSeq(name, Len(Stem(name)) + 1, Len(name))
             plain == Append(batch_dir, new_key \o suffix)
             Drawn(h) == Append(batch_dir, new_key \o <<"_">> \o h \o suffix)
         IN IF ~(IsFile(d, p) /\ StartsWith(Stem(name), old_key))
            THEN RenameAll(d, batch_dir, Tail(names), old_key, new_key)
            ELSE IF ~Exists(d, plain)
            THEN RenameAll(Rename(d, p, plain), batch_dir, Tail(names), old_key, new_key)
            ELSE UNION { RenameAll(Rename(d, p, Drawn(h)), batch_dir, Tail(names),
                                   old_key, new_key) : h \in HexDraws }

AdminRenameBrand ==
    /\ Serving
    /\ \E token \in Tokens, batch \in BatchArgs, old_key \in OldKeyArgs,
          new_key_raw \in BrandArgs :
         LET new_key == clean_brand_key(new_key_raw)
             batch_dir == Resolve(JoinPath(STATIC_LOGOS_ROOT, batch))
             names == SortNames({ Name(p) : p \in IterDir(disk, batch_dir) })
             Reply(status) ==
                 /\ Respond("admin_rename_brand", token, batch, old_key, status, <<>>, {})
                 /\ UNCHANGED disk
         IN IF ~require_admin_token(token) THEN Reply(401)
            ELSE IF batch = <<>> \/ old_key = <<>> \/ new_key_raw = <<>> THEN Reply(400)
            ELSE IF ~Exists(disk, batch_dir) THEN Reply(404)
            ELSE \E after \in RenameAll(disk, batch_dir, names, old_key, new_key) :
                    /\ disk' = after
                    /\ Respond("admin_rename_brand", token, batch, old_key, 200, new_key,
                               (DOMAIN disk.files \ DOMAIN after.files)
                                  \cup (DOMAIN after.files \ DOMAIN disk.files))
    /\ UNCHANGED <<pc, matcherVars, grouperVars, batchVars, ADMIN_TOKENS, issued, marks, now>>

\* marks[f"{batch}::{brand}"] = {...}
PutMark(m, batch, brand, ts) ==
    LET key == batch \o <<":", ":">> \o brand
    IN [k \in DOMAIN m \cup {key} |->
           IF k = key THEN [marked_by |-> "admin", ts |-> ts] ELSE m[k]]

AdminMark ==
    /\ Serving
    /\ \E token \in Tokens, batch \in BatchArgs, brand \in BrandArgs :
         LET Reply(status) ==
                 /\ Respond("admin_mark", token, batch, brand, status, <<>>, {})
                 /\ UNCHANGED marks
         IN IF ~require_admin_token(token) THEN Reply(401)
            ELSE IF batch = <<>> \/ brand = <<>> THEN Reply(400)
            ELSE /\ marks' = PutMark(marks, batch, brand, now)
                 /\ Respond("admin_mark", token, batch, brand, 200, <<>>, {})
    /\ UNCHANGED <<pc, matcherVars, grouperVars, batchVars, ADMIN_TOKENS, issued, disk, now>>

\* a correct password adds a fresh uuid to ADMIN_TOKENS
AdminLogin ==
    /\ Serving
    /\ \E password \in {ADMIN_PASSWORD, <<>>} :
         IF password = ADMIN_PASSWORD
         THEN /\ issued < MaxTokens
              /\ issued' = issued + 1
              /\ ADMIN_TOKENS' = ADMIN_TOKENS \cup {issued + 1}
              /\ Respond("admin_login", NoToken, <<>>, <<>>, 200, <<>>, {})
         ELSE /\ UNCHANGED <<issued, ADMIN_TOKENS>>
              /\ Respond("admin_login", NoToken, <<>>, <<>>, 401, <<>>, {})
    /\ UNCHANGED <<pc, matcherVars, grouperVars, batchVars, disk, marks, now>>

\* variant: a logout ends every session
DiscardAll(tokens, token) == {}

\* if token and token in ADMIN_TOKENS: ADMIN_TOKENS.discard(token)
Discard(tokens, token) ==
    IF token # NoToken /\ token \in tokens THEN tokens \ {token} ELSE tokens

AdminLogout ==
    /\ Serving
    /\ \E token \in Tokens :
         /\ ADMIN_TOKENS' = Discard(ADMIN_TOKENS, token)
         /\ Respond("admin_logout", token, <<>>, <<>>, 200, <<>>, {})
    /\ UNCHANGED <<pc, matcherVars, grouperVars, batchVars, issued, disk, marks, now>>

\* /api/logos/<batch>: the sorted listing goes through group_by_brand
ApiLogos ==
    /\ Serving
    /\ \E batch \in BatchArgs \ {<<>>} :
         /\ filenames' = IF IsDir(disk, JoinPath(STATIC_LOGOS_ROOT, batch))
                         THEN Listing(disk, batch) ELSE <<>>
         /\ groups' = api_logos(disk, batch)
         /\ Respond("api_logos", NoToken, batch, <<>>, 200, <<>>, {})
    /\ UNCHANGED <<pc, matcherVars, batchVars, ADMIN_TOKENS, issued, disk, marks, now>>

\* /logos/<batch>/<filename>
ServeLogo ==
    /\ Serving
    /\ \E batch \in BatchArgs \ {<<>>}, filename \in DeleteArgs(disk) \ {<<>>} :
         LET batch_dir == JoinPath(STATIC_LOGOS_ROOT, batch)
             requested == safe_join(batch_dir, filename)
             Reply(status, path) ==
                 http' = [n |-> http.n + 1, endpoint |-> "serve_logo", token |-> NoToken,
                          batch |-> batch, brand |-> <<>>, status |-> status,
                          filename |-> filename, touched |-> {}, served |-> path]
         IN IF ~Exists(disk, batch_dir) THEN Reply(404, <<>>)
            ELSE IF ~SafeJoinReturns(batch_dir, filename) THEN Reply(403, <<>>)
            ELSE IF ~Exists(disk, requested) THEN Reply(404, <<>>)
            ELSE IF IsDir(disk, requested) THEN Reply(404, <<>>)
            ELSE Reply(200, requested)
    /\ UNCHANGED <<pc, matcherVars, grouperVars, batchVars, ADMIN_TOKENS, issued, disk,
                   marks, now>>

\* a second of the clock read by utcnow() passes
Tick ==
    /\ pc = "web" /\ now < MaxNow
    /\ now' = now + 1
    /\ UNCHANGED <<pc, matcherVars, grouperVars, batchVars, ADMIN_TOKENS, issued, disk,
                   marks, http>>

\* STATIC_LOGOS_ROOT.mkdir(parents=True, exist_ok=True) at import
RootOnly == Mkdir(NoDisk, STATIC_LOGOS_ROOT)

\* the tree with files in batch b (content 0: stored before the server started)
Stored(names) ==
    LET b == Append(STATIC_LOGOS_ROOT, <<"b">>)
    IN [dirs |-> RootOnly.dirs \cup {b},
        files |-> [p \in { Append(b, fn) : fn \in names } |-> 0]]

\* the stored tree next to a second batch, bb, holding A_logo.png
StoredTwo(names) ==
    LET bb == Append(STATIC_LOGOS_ROOT, <<"b", "b">>)
        stored == Stored(names)
    IN [dirs |-> stored.dirs \cup {bb},
        files |-> [p \in DOMAIN stored.files \cup {Append(bb, <<"A">> \o MARKER \o EXT)} |-> 0]]

InitDisks ==
    { RootOnly,
      Stored({ <<"A", "_", "1", ".", "p", "n", "g">>,
               <<"A", "_", "l", "o", "g", "o", "_", "1", ".", "p", "n", "g">> }),
      StoredTwo({ <<"A", "_", "1", ".", "p", "n", "g">> }) }

InitWeb ==
    /\ pc = "web"
    /\ ADMIN_TOKENS = {}
    /\ issued = 0
    /\ disk \in InitDisks
    /\ marks = <<>>
    /\ http = NoRequest
    /\ now = 1
    /\ MatcherIdle
    /\ GrouperIdle
    /\ BatchIdle

NextWeb ==
    \/ AdminLogin \/ AdminLogout
    \/ AdminCreateBatch \/ AdminAddBrand \/ AdminUploadLogo \/ UploadOrReplaceLogo
    \/ AdminDeleteLogo \/ AdminRenameBrand \/ AdminMark
    \/ ApiLogos \/ ServeLogo \/ Tick

SpecWeb == InitWeb /\ [][NextWeb]_vars

(***************************************************************************)
(* The two ways into group_by_brand: a direct call on any list, and        *)
(* /api/logos on the sorted listing of a batch directory.                  *)
(***************************************************************************)
MaxDirFiles == 3

\* names found in a batch directory: A_1.png, A_B_logo.png, A_logo.png,
\* B_logo.png, f.exe
ListingPool ==
    { <<"A", "_", "1", ".", "p", "n", "g">>,
      <<"A", "_", "B">> \o MARKER \o EXT,
      <<"A">> \o MARKER \o EXT,
      <<"B">> \o MARKER \o EXT,
      <<"f", ".", "e", "x", "e">> }

\* a subdirectory of the batch directory named like an image: A_2.png
SubDir == Append(Append(STATIC_LOGOS_ROOT, <<"b">>), <<"A", "_", "2", ".", "p", "n", "g">>)

ListingDisks ==
    { [Stored(names) EXCEPT !.dirs = @ \cup sub] :
        names \in { S \in SUBSET ListingPool : Cardinality(S) <= MaxDirFiles },
        sub \in { {}, {SubDir} } }

InitListing ==
    /\ pc = "web"
    /\ ADMIN_TOKENS = {}
    /\ issued = 0
    /\ disk \in ListingDisks
    /\ marks = <<>>
    /\ http = NoRequest
    /\ now = 1
    /\ MatcherIdle
    /\ GrouperIdle
    /\ BatchIdle

NextListing == GroupByBrand \/ ApiLogos

\* group_by_brand is entered from a direct call or from a request
InitEither == InitGroup \/ InitListing

SpecListing == InitEither /\ [][NextListing]_vars

(***************************************************************************)
(* Properties of the brand matcher.                                        *)
(***************************************************************************)
Matched == pc = "matched"

\* the trimmed, lower-cased query
Query == Lower(Strip(search_name))

RowName(i) == logo_df[i].Brand_Lower

Rows == 1..Len(logo_df)

EqualsQuery(i) == RowName(i) = Query

\* the query is a substring of the row's name
QueryInRow(i) == Contains(RowName(i), Query)

\* the row's name is a substring of the query
RowInQuery(i) == Contains(Query, RowName(i))

SharedWords(i) == Cardinality(Words(Query) \cap Words(RowName(i)))

First(P(_)) == IF \E i \in Rows : P(i)
               THEN CHOOSE i \in Rows : P(i) /\ \A j \in 1..(i - 1) : ~P(j)
               ELSE 0

Hit(P(_)) == \E i \in Rows : P(i)

FuzzyHit(i) == SharedWords(i) >= 2

\* C2: the kind returned is that of the first strategy, in the order EXACT,
\* CONTAINS, PARTIAL, FUZZY, that has a hit on any row of the whole table; a
\* later strategy answers only when every earlier one has no hit on any row.
C2_StrictCascade ==
    Matched =>
        match.kind = IF Hit(EqualsQuery) THEN "EXACT"
                     ELSE IF Hit(QueryInRow) THEN "CONTAINS"
                     ELSE IF Hit(RowInQuery) THEN "PARTIAL"
                     ELSE IF Hit(FuzzyHit) THEN "FUZZY"
                     ELSE "NOT_FOUND"

\* an exact match on the second row beats a substring match on the first
C2_Witness ==
    /\ Matched
    /\ Len(logo_df) = 2
    /\ QueryInRow(1) /\ ~EqualsQuery(1)
    /\ match.kind = "EXACT" /\ match.row = 2

MaxShared ==
    IF Rows = {} THEN 0
    ELSE CHOOSE n \in { SharedWords(i) : i \in Rows } :
            \A i \in Rows : SharedWords(i) <= n

IsMaxShared(i) == SharedWords(i) = MaxShared

NoEarlierHit == ~Hit(EqualsQuery) /\ ~Hit(QueryInRow) /\ ~Hit(RowInQuery)

\* C5: when EXACT, CONTAINS and PARTIAL have no hit and some row shares at
\* least 2 words with the query, the result is FUZZY(n) where n is the largest
\* number of shared words over the table, the row is the first row in table
\* order that reaches n, and a FUZZY result always has n >= 2.
C5_FuzzyFirstMaximal ==
    Matched =>
        /\ (NoEarlierHit /\ MaxShared >= 2) =>
              /\ match.kind = "FUZZY"
              /\ match.score = MaxShared
              /\ match.row = First(IsMaxShared)
              /\ match.name = logo_df[match.row].Brand
        /\ match.kind = "FUZZY" => (NoEarlierHit /\ match.score >= 2)

\* the second row wins with 3 shared words over a first row with 2
C5_Witness ==
    /\ Matched
    /\ Len(logo_df) = 2
    /\ SharedWords(1) = 2 /\ SharedWords(2) = 3
    /\ match.kind = "FUZZY" /\ match.row = 2 /\ match.score = 3

\* C9: EXACT is returned exactly when the trimmed, lower-cased query equals
\* some row's lower-cased name; the row is the first such row in table order
\* and the canonical name is that row's Brand.
C9_ExactFirstRow ==
    Matched =>
        /\ match.kind = "EXACT" <=> Hit(EqualsQuery)
        /\ match.kind = "EXACT" =>
              /\ match.row = First(EqualsQuery)
              /\ match.name = logo_df[match.row].Brand

\* an exact match on the second row whose Brand is not the query as typed
C9_Witness ==
    /\ Matched
    /\ Len(logo_df) = 2
    /\ ~EqualsQuery(1)
    /\ match.kind = "EXACT" /\ match.row = 2
    /\ logo_df[2].Brand # search_name
    /\ logo_df[2].Brand # Query

\* C10: the kind is one of EXACT, CONTAINS, PARTIAL, FUZZY(n), NOT_FOUND; the
\* row and the name are none exactly when the kind is NOT_FOUND, which happens
\* exactly when no row equals, contains or is contained in the query and no row
\* shares at least 2 words with it; otherwise the row is a row of the table and
\* the name is its Brand.
C10_TotalResult ==
    Matched =>
        /\ match.kind \in {"EXACT", "CONTAINS", "PARTIAL", "FUZZY", "NOT_FOUND"}
        /\ match.row = 0 <=> match.kind = "NOT_FOUND"
        /\ match.name = None <=> match.kind = "NOT_FOUND"
        /\ match.kind = "NOT_FOUND" <=>
              \A i \in Rows : /\ ~EqualsQuery(i)
                              /\ ~QueryInRow(i)
                              /\ ~RowInQuery(i)
                              /\ SharedWords(i) < 2
        /\ match.kind # "NOT_FOUND" =>
              /\ match.row \in Rows
              /\ match.name = logo_df[match.row].Brand
        /\ match.kind = "FUZZY" <=> match.score # 0

\* NOT_FOUND against a full table whose rows each share a word with the query
C10_Witness ==
    /\ Matched
    /\ Len(logo_df) = 2
    /\ \A i \in Rows : SharedWords(i) = 1
    /\ match.kind = "NOT_FOUND" /\ match.row = 0 /\ match.name = None

(***************************************************************************)
(* Properties of the brand grouper.                                        *)
(***************************************************************************)
Grouped == pc = "grouped"

Range(f) == { f[i] : i \in DOMAIN f }

Count(x, f) == Cardinality({ i \in DOMAIN f : f[i] = x })

\* the output groups that list fn
GroupsOf(fn) == { g \in DOMAIN groups : fn \in Range(groups[g].files) }

SameGroup(fn1, fn2) == \E g \in DOMAIN groups : {fn1, fn2} \subseteq Range(groups[g].files)

\* C1: every input filename is listed by exactly one output group, as often as
\* it occurs in the input; no group lists a filename that is not in the input;
\* two filenames with the same brand key are listed by the same group.
C1_Partition ==
    Grouped =>
        /\ \A fn \in Range(filenames) :
              /\ Cardinality(GroupsOf(fn)) = 1
              /\ \A g \in GroupsOf(fn) : Count(fn, groups[g].files) = Count(fn, filenames)
        /\ \A g \in DOMAIN groups : Range(groups[g].files) \subseteq Range(filenames)
        /\ \A g \in DOMAIN groups : groups[g].files # <<>>
        /\ \A f1, f2 \in Range(filenames) :
              BrandKey(f1) = BrandKey(f2) => SameGroup(f1, f2)

\* two different files of one brand, grouped together
C1_Witness ==
    /\ Grouped
    /\ Len(filenames) = 2
    /\ filenames[1] # filenames[2]
    /\ Len(groups) = 1
    /\ groups[1].files = filenames

\* the stem as the claims read it: the filename without its extension
StemOf(fn) == SubSeq(fn, 1, Len(fn) - Len(EXT))

HasMarker(fn) == Contains(Lower(StemOf(fn)), MARKER)

\* the text before the last occurrence of the marker, in any letter case
BeforeMarker(fn) ==
    LET stem == StemOf(fn)
    IN SubSeq(stem, 1, RFind(Lower(stem), MARKER) - 1)

\* the group that lists fn shows the brand key `key`
ShownUnderKey(fn, key) ==
    \E g \in GroupsOf(fn) : groups[g].brand = ReplaceUnderscore(key)

\* C6: every filename whose stem holds the marker _logo in any letter case is
\* grouped under the part of its stem before the last case-insensitive
\* occurrence of the marker.
C6_MarkerAnyCase ==
    Grouped =>
        \A fn \in Range(filenames) :
            HasMarker(fn) => ShownUnderKey(fn, BeforeMarker(fn))

LastUnderscore(stem) ==
    LET us == { i \in 1..Len(stem) : stem[i] = "_" }
    IN IF us = {} THEN 0 ELSE CHOOSE i \in us : \A j \in us : j <= i

AfterLastUnderscore(stem) == SubSeq(stem, LastUnderscore(stem) + 1, Len(stem))

DigitSuffix(stem) ==
    /\ LastUnderscore(stem) > 0
    /\ AfterLastUnderscore(stem) # <<>>
    /\ \A i \in 1..Len(AfterLastUnderscore(stem)) : AfterLastUnderscore(stem)[i] \in {"1", "2"}

\* C7: for a filename whose stem has no marker, the brand key is the text before
\* the stem's last underscore when the text after it is non-empty and all
\* digits, and the whole stem otherwise (no underscore, empty or non-digit last
\* segment).
C7_DigitSuffixRule ==
    Grouped =>
        \A fn \in Range(filenames) :
            ~HasMarker(fn) =>
                LET stem == StemOf(fn)
                IN IF DigitSuffix(stem)
                   THEN ShownUnderKey(fn, SubSeq(stem, 1, LastUnderscore(stem) - 1))
                   ELSE ShownUnderKey(fn, stem)

\* a digit-suffixed file grouped with the bare stem, next to a stem that ends
\* in an underscore and keeps it
C7_Witness ==
    /\ Grouped
    /\ Len(filenames) = 2
    /\ ~HasMarker(filenames[1]) /\ ~HasMarker(filenames[2])
    /\ DigitSuffix(StemOf(filenames[1]))
    /\ LastUnderscore(StemOf(filenames[2])) = Len(StemOf(filenames[2]))
    /\ Len(groups) = 2

\* C8: two filenames whose stems hold the marker, in whatever letter case, are
\* in the same group exactly when the text before the marker is identical.
C8_MarkerCaseSameGroup ==
    Grouped =>
        \A f1, f2 \in Range(filenames) :
            (HasMarker(f1) /\ HasMarker(f2)) =>
                (SameGroup(f1, f2) <=> BeforeMarker(f1) = BeforeMarker(f2))

\* C11: the output groups are in ascending order of their display name compared
\* case-insensitively: for consecutive groups g1, g2, lower(g1.brand) <=
\* lower(g2.brand).
C11_SortedByDisplayName ==
    Grouped =>
        \A g \in 1..(Len(groups) - 1) :
            ~StrLess(Lower(groups[g + 1].brand), Lower(groups[g].brand))

\* two brands put in the other order than they came in, where comparing the
\* names as written would have kept them
C11_Witness ==
    /\ Grouped
    /\ Len(filenames) = 2
    /\ Len(groups) = 2
    /\ groups[1].files = <<filenames[2]>>
    /\ StrLess(groups[2].brand, groups[1].brand)
    /\ StrLess(Lower(groups[1].brand), Lower(groups[2].brand))

\* the files of the output groups, concatenated in output order
OutputFiles == Flatten([g \in 1..Len(groups) |-> groups[g].files])

\* C13: grouping the concatenated files lists of a grouping again yields the
\* same groups, in the same order, with the same files in the same order.
C13_RegroupIdempotent ==
    Grouped => group_by_brand(OutputFiles) = groups

\* two brands whose display names are equal up to letter case
C13_Witness ==
    /\ Grouped
    /\ Len(groups) = 2
    /\ groups[1].brand # groups[2].brand
    /\ Lower(groups[1].brand) = Lower(groups[2].brand)
    /\ OutputFiles = filenames

(***************************************************************************)
(* Further properties of the brand matcher.                                *)
(***************************************************************************)
\* the query is the name of row i followed by a blank and further words
RowThenMoreWords(i) ==
    /\ Len(Query) > Len(RowName(i)) + 1
    /\ SubSeq(Query, 1, Len(RowName(i)) + 1) = RowName(i) \o <<SPACE>>
    /\ Query[Len(Query)] # SPACE

MultiWord(i) == Cardinality(Words(RowName(i))) >= 2

\* C14 as stated: a query made of the only row's multi-word name followed by
\* further words yields FUZZY(2) with that row.
C14_AsStated ==
    (Matched /\ Len(logo_df) = 1 /\ MultiWord(1) /\ RowThenMoreWords(1)) =>
        (match.kind = "FUZZY" /\ match.score = 2 /\ match.row = 1)

\* C14 amended: a query made of the only row's multi-word name followed by
\* further words yields PARTIAL with that row (the row's name is a substring of
\* the query, so strategy 3 answers before the word match is tried).
C14_LongerQueryIsPartial ==
    (Matched /\ Len(logo_df) = 1 /\ MultiWord(1) /\ RowThenMoreWords(1)) =>
        /\ match.kind = "PARTIAL"
        /\ match.row = 1
        /\ match.name = logo_df[1].Brand

\* a two-word row against the query made of its name and one more word
C14_Witness ==
    /\ Matched
    /\ Len(logo_df) = 1
    /\ Cardinality(Words(RowName(1))) = 2
    /\ RowThenMoreWords(1)
    /\ SharedWords(1) = 2
    /\ match.kind = "PARTIAL"

\* C15: an empty or whitespace-only query is non-matching: against a table
\* whose row names are all non-empty the result is NOT_FOUND.
C15_EmptyQueryNotFound ==
    (Matched /\ Query = <<>> /\ \A i \in Rows : RowName(i) # <<>>) =>
        (match.kind = "NOT_FOUND" /\ match.row = 0)

\* the position of the running strategy in the cascade
PhaseIndex == CHOOSE k \in 1..Len(Strategies) : Strategies[k] = scan.phase

\* the work left: the passes not yet finished and the rows left in this pass
Remaining ==
    IF scan.phase \in {"done", "idle"} THEN 0
    ELSE (Len(Strategies) + 1 - PhaseIndex) * (Len(logo_df) + 2) - scan.i

NoRowTwice(visited) ==
    /\ \A a, b \in 1..Len(visited) : visited[a] = visited[b] => a = b
    /\ \A a \in 1..Len(visited) : visited[a] \in Rows

TotalVisits == Len(Flatten(scan.visits))

ScanBounded ==
    /\ \A k \in 1..Len(Strategies) : NoRowTwice(scan.visits[k])
    /\ TotalVisits <= Len(Strategies) * Len(logo_df)
    /\ scan.phase # "done" => ENABLED NextScan
    /\ scan.phase = "done" => (pc = "matched" /\ match = find_best_match(search_name, logo_df))

\* C20: find_best_match terminates for every query and every finite table: it
\* can always take a step until it returns, every step reduces the work left,
\* each strategy visits each row at most once (at most 4 visits per row), and
\* it returns what the cascade defines.
C20_TerminatesLinear == [](ScanBounded) /\ [][Remaining' < Remaining]_vars

\* a run through all four strategies that visits both rows four times
C20_Witness ==
    /\ scan.phase = "done"
    /\ Len(logo_df) = 2
    /\ TotalVisits = 8
    /\ match.kind = "FUZZY" /\ match.row = 2

(***************************************************************************)
(* Properties of the batch runs.                                           *)
(***************************************************************************)
\* the brand as the loop looks it up and reports it
Looked(k) ==
    IF run.script = "check_logos" THEN Strip(batch_brands[k]) ELSE batch_brands[k]

\* the lookup of the k-th brand resolves to NOT_FOUND
ResolvesNotFound(k) ==
    IF run.script = "check_logos"
    THEN find_best_match(Looked(k), logo_df).kind = "NOT_FOUND"
    ELSE find_best_match_multi(Looked(k), logo_df).kind = "NOT_FOUND"

NotFoundRows == { k \in 1..Len(run.results) : run.results[k].Matched_As = NOT_FOUND_MARK }

LoopEnded == pc # "batch" \/ run.i > Len(batch_brands)

\* C16: the run appends exactly one report row per brand in input order; a
\* brand resolving to NOT_FOUND yields a row marked 'NOT FOUND', counts in
\* not_found and starts no download; the loop goes on to the next brand, so
\* that when it ends every brand has its row and found + not_found is the
\* number of brands.
C16_OneRowPerBrand ==
    run.script # "none" =>
       /\ Len(run.results) = run.i - 1
       /\ \A k \in 1..Len(run.results) :
             /\ run.results[k].Brand = Looked(k)
             /\ ResolvesNotFound(k) =>
                   /\ run.results[k].Matched_As = NOT_FOUND_MARK
                   /\ \A d \in 1..Len(run.downloads) : run.downloads[d][1] # k
       /\ run.stats.not_found >= Cardinality({ k \in 1..Len(run.results) : ResolvesNotFound(k) })
       /\ run.stats.found + run.stats.not_found = Len(run.results)
       /\ LoopEnded =>
             /\ Len(run.results) = Len(batch_brands)
             /\ run.stats.found + run.stats.not_found = Len(batch_brands)

\* the same statement for the runs of check_logos.py alone
C16_CheckLogosRuns ==
    run.script = "check_logos" => C16_OneRowPerBrand

\* a run of check_logos.py ended with a NOT FOUND row followed by a found one
C16_CheckLogosWitness ==
    /\ run.script = "check_logos" /\ pc = "reported"
    /\ Len(run.results) = 2
    /\ ResolvesNotFound(1) /\ ~ResolvesNotFound(2)
    /\ run.downloads # <<>>

(***************************************************************************)
(* Properties of the listing.                                              *)
(***************************************************************************)
Listed == pc = "web" /\ http.endpoint = "api_logos"

Ascending(fns) == \A i \in 1..(Len(fns) - 1) : StrLess(fns[i], fns[i + 1])

\* C12: within every output group of group_by_brand the files are in the
\* relative order of the input list; a group listed by /api/logos/<batch>, which
\* passes the sorted filenames of the directory, has its files in sorted order.
C12_FilesKeepInputOrder ==
    (Grouped \/ Listed) =>
       /\ \A g \in DOMAIN groups :
             groups[g].files =
                 SelectSeq(filenames, LAMBDA fn : fn \in Range(groups[g].files))
       /\ Listed =>
             /\ Range(filenames) =
                   { fn \in { Name(p) : p \in IterDir(disk, JoinPath(STATIC_LOGOS_ROOT, http.batch)) } :
                       /\ IsFile(disk, Append(JoinPath(STATIC_LOGOS_ROOT, http.batch), fn))
                       /\ allowed_ext(fn) }
             /\ \A g \in DOMAIN groups : Ascending(groups[g].files)

\* a listing of two groups in which another group's file sorts between the two
\* files of one group
C12_Witness ==
    /\ Listed
    /\ Len(groups) >= 2
    /\ \E g \in DOMAIN groups :
          /\ Len(groups[g].files) = 2
          /\ \E i, j, k \in DOMAIN filenames :
                /\ i < j /\ j < k
                /\ filenames[i] = groups[g].files[1]
                /\ filenames[k] = groups[g].files[2]
                /\ filenames[j] \notin Range(groups[g].files)

(***************************************************************************)
(* Properties of the admin endpoints.                                      *)
(***************************************************************************)
AdminEndpoints ==
    {"admin_create_batch", "admin_add_brand", "admin_upload_logo",
     "upload_or_replace_logo", "admin_delete_logo", "admin_rename_brand", "admin_mark"}

\* C17: a request to upload, replace, delete, rename, mark or create a batch
\* changes the directory tree or the marks only if its token is in ADMIN_TOKENS
\* when it arrives; otherwise it is answered 401 and tree and marks stay as
\* they were.  No other request changes them.
C17_AdminOnly ==
    [][/\ (disk' # disk \/ marks' # marks) =>
             /\ http'.endpoint \in AdminEndpoints
             /\ http'.token \in ADMIN_TOKENS
       /\ (http'.n = http.n + 1 /\ http'.endpoint \in AdminEndpoints
              /\ http'.token \notin ADMIN_TOKENS) =>
             /\ http'.status = 401
             /\ disk' = disk
             /\ marks' = marks]_vars

\* an admin request with a token that was issued and has been logged out is
\* answered 401
C17_Witness ==
    /\ http.endpoint \in AdminEndpoints
    /\ http.token \in 1..issued
    /\ http.token \notin ADMIN_TOKENS
    /\ http.status = 401

\* C18: whatever batch, brand and filename a request carries, every file or
\* directory an admin endpoint creates, renames or deletes lies inside
\* STATIC_LOGOS_ROOT.
C18_InsideLogosRoot ==
    \A p \in http.touched : StartsWith(p, STATIC_LOGOS_ROOT)

Replaced == http.endpoint = "upload_or_replace_logo" /\ http.status = 200

\* C19: after upload_or_replace_logo succeeds for brand key K in a batch, the
\* only file of the batch whose name starts with K_logo is the newly saved
\* K_logo<ext>, and /api/logos for the batch lists brand K with exactly that
\* one file.
C19_ReplaceLeavesOneLogo ==
    Replaced =>
       LET K == clean_brand_key(http.brand)
           batch_dir == Resolve(JoinPath(STATIC_LOGOS_ROOT, http.batch))
           starting == { fn \in { Name(p) : p \in IterDir(disk, batch_dir) } :
                           /\ IsFile(disk, Append(batch_dir, fn))
                           /\ StartsWith(fn, K \o MARKER) }
           listed == api_logos(disk, http.batch)
           ofK == { g \in DOMAIN listed : listed[g].brand = BrandDisplay(K) }
       IN /\ starting = {http.filename}
          /\ StartsWith(http.filename, K \o MARKER \o <<".">>)
          /\ disk.files[Append(batch_dir, http.filename)] = http.n
          /\ Cardinality(ofK) = 1
          /\ \A g \in ofK : listed[g].files = <<http.filename>>

\* the first half alone: the only file starting with K_logo is the new one
C19_OnlyNewLogoFile ==
    Replaced =>
       LET K == clean_brand_key(http.brand)
           batch_dir == Resolve(JoinPath(STATIC_LOGOS_ROOT, http.batch))
       IN { fn \in { Name(p) : p \in IterDir(disk, batch_dir) } :
              /\ IsFile(disk, Append(batch_dir, fn))
              /\ StartsWith(fn, K \o MARKER) } = {http.filename}

UploadEndpoints == {"admin_add_brand", "admin_upload_logo"}

\* the files of the batch directory the last request names
BatchFiles(d, batch) ==
    { p \in DOMAIN d.files : Parent(p) = Resolve(JoinPath(STATIC_LOGOS_ROOT, batch)) }

\* C21: admin_add_brand and admin_upload_logo never overwrite or replace an
\* existing file: every successful upload leaves one more file in its batch
\* directory and every file stored before keeps its content, whatever the
\* timing, the brand and the extension (so n uploads in a row add n files).
C21_UploadNeverOverwrites ==
    [][(http'.n = http.n + 1 /\ http'.endpoint \in UploadEndpoints /\ http'.status = 200) =>
          /\ Cardinality(BatchFiles(disk', http'.batch)) =
                Cardinality(BatchFiles(disk, http'.batch)) + 1
          /\ \A p \in DOMAIN disk.files :
                p \in DOMAIN disk'.files /\ disk'.files[p] = disk.files[p]]_vars

\* p is dir itself or lies inside the directory dir
InsideDir(p, dir) == StartsWith(p, dir)

GuardedEndpoints == {"serve_logo", "admin_delete_logo"}

\* C22: safe_join returns a path only if it is base itself or lies inside base,
\* and aborts with 403 for every input that resolves outside base (a parent, or
\* a sibling directory whose name starts with base's name); so serve_logo and
\* admin_delete_logo never read or delete a file outside the requested batch
\* directory.
C22_SafeJoinConfines ==
    http.endpoint \in GuardedEndpoints =>
       LET base == Resolve(JoinPath(STATIC_LOGOS_ROOT, http.batch))
           target == Resolve(JoinPath(base, http.filename))
       IN /\ http.status = 200 =>
                /\ InsideDir(target, base)
                /\ \A p \in http.touched : InsideDir(p, base)
                /\ http.endpoint = "serve_logo" => InsideDir(http.served, base)
          /\ (/\ http.status \notin {400, 401}
              /\ Exists(disk, base)
              /\ ~InsideDir(target, base)) => http.status = 403

\* a request for the parent directory of the batch is answered 403
C22_ParentRefused ==
    /\ http.endpoint \in GuardedEndpoints
    /\ http.filename = DOTDOT
    /\ http.status = 403

\* the step handles a rename request that succeeds
RenameStep ==
    http'.n = http.n + 1 /\ http'.endpoint = "admin_rename_brand" /\ http'.status = 200

\* the file p of the tree d is kept by the step: same name, same content
Kept(p) == p \in DOMAIN disk'.files /\ disk'.files[p] = disk.files[p]

\* C23: admin_rename_brand(batch, old_key, new_key) renames only the files that
\* group_by_brand assigns to brand key old_key: a file of the batch that belongs
\* to another brand, also one whose key merely starts with old_key, keeps its
\* name, and the files of other batches are untouched.
C23_RenameOnlyBrand ==
    [][RenameStep =>
          \A p \in DOMAIN disk.files :
             (\/ p \notin BatchFiles(disk, http'.batch)
              \/ BrandKey(Name(p)) # http'.brand) => Kept(p)]_vars

\* the files of other batches are untouched by a rename
C23_OtherBatchesUntouched ==
    [][RenameStep =>
          \A p \in DOMAIN disk.files \ BatchFiles(disk, http'.batch) : Kept(p)]_vars

\* the names /api/logos lists for the batch of tree d under brand key key
ListedUnder(d, batch, key) ==
    { fn \in Range(Listing(d, batch)) : BrandKey(fn) = key }

\* C24: after admin_rename_brand(batch, old_key, new_key) succeeds, all files
\* that /api/logos listed under brand old_key before the call are listed
\* together under the one group of brand key new_key, and the batch holds as
\* many files as before.  Stated on the step: every listed file that is not
\* under new_key afterwards is a file of another brand that was there before,
\* so none of old_key's files is listed anywhere else.
C24_RenameKeepsBrandTogether ==
    [][RenameStep =>
          /\ \A fn \in Range(Listing(disk', http'.batch)) :
                \/ BrandKey(fn) = http'.filename
                \/ /\ fn \in Range(Listing(disk, http'.batch))
                   /\ BrandKey(fn) # http'.brand
          /\ Cardinality(ListedUnder(disk', http'.batch, http'.filename)) >=
                Cardinality(ListedUnder(disk, http'.batch, http'.brand))
          /\ Cardinality(BatchFiles(disk', http'.batch)) =
                Cardinality(BatchFiles(disk, http'.batch))]_vars

\* the step handles a request to the endpoint and answers with the status
Handled(endpoint, status) ==
    http'.n = http.n + 1 /\ http'.endpoint = endpoint /\ http'.status = status

\* the tokens returned by admin_login so far
Issued == 1..issued

\* C25: a token is in ADMIN_TOKENS if and only if admin_login returned it for
\* the correct password and it has not been passed to admin_logout since.
\* Step by step: only issued tokens are valid; a successful login adds exactly
\* one token never returned before; a login with a wrong password adds nothing;
\* admin_logout(t) removes t and nothing else; no other request changes the
\* set; a token once removed never becomes valid again, and an admin request
\* carrying it is answered 401.
C25_TokenLifecycle ==
    /\ [](ADMIN_TOKENS \subseteq Issued)
    /\ [][/\ Handled("admin_login", 200) =>
                /\ issued' = issued + 1
                /\ ADMIN_TOKENS' = ADMIN_TOKENS \cup {issued'}
          /\ Handled("admin_login", 401) =>
                /\ issued' = issued
                /\ ADMIN_TOKENS' = ADMIN_TOKENS
          /\ Handled("admin_logout", 200) =>
                /\ http'.token \notin ADMIN_TOKENS'
                /\ ADMIN_TOKENS \ {http'.token} \subseteq ADMIN_TOKENS'
                /\ ADMIN_TOKENS' \subseteq ADMIN_TOKENS
          /\ http'.endpoint \notin {"admin_login", "admin_logout"} =>
                ADMIN_TOKENS' = ADMIN_TOKENS
          /\ \A t \in Issued \ ADMIN_TOKENS :
                /\ t \notin ADMIN_TOKENS'
                /\ (http'.n = http.n + 1 /\ http'.endpoint \in AdminEndpoints
                       /\ http'.token = t) => http'.status = 401]_vars

\* two tokens were issued, the first has been logged out, the second is valid
C25_Witness ==
    /\ http.endpoint = "admin_logout"
    /\ http.token = 1
    /\ issued = 2
    /\ ADMIN_TOKENS = {2}

(***************************************************************************)
(* The two matchers compared.                                              *)
(***************************************************************************)
MatchedMulti == pc = "matched_multi"

\* C26: find_best_match of check_logos.py and of logo_lookup_multi.py are
\* equivalent: for every query and every reference table they return the same
\* matched row, the same match kind and the same canonical name.
C26_SameResult ==
    /\ Matched => match = find_best_match_multi(search_name, logo_df)
    /\ MatchedMulti => match = find_best_match(search_name, logo_df)

\* the two agree whenever check_logos.py answers EXACT
C26_SameExact ==
    /\ (Matched /\ match.kind = "EXACT") =>
          match = find_best_match_multi(search_name, logo_df)
    /\ (MatchedMulti /\ find_best_match(search_name, logo_df).kind = "EXACT") =>
          match = find_best_match(search_name, logo_df)

====
